---------------------------- MODULE Spec2Model ----------------------------
(***************************************************************************)
(* State-machine model of the chat client's streaming reducer and          *)
(* conversation store: handleSendMessage / handleEditMessage and the UI    *)
(* handlers around them, in components/chat/ChatContent.tsx and            *)
(* app/chat/page.tsx, with parseStreamResponse as the source of chunks.    *)
(*                                                                         *)
(* Conventions                                                             *)
(*  - JavaScript strings that are concatenated are sequences of fragments; *)
(*    string concatenation is \o and the empty string is << >>.            *)
(*  - An optional value (undefined / null) is a sequence of length <= 1:   *)
(*    << >> is absent, <<v>> is present.                                   *)
(*  - An identifier is a record [kind, n]: "temp-<uuid>" is kind "temp",   *)
(*    "msg-<uuid>" is kind "msg"/"ai", server-issued ids are "srv"/"umsg"/ *)
(*    "hist"; n is the uuid.  generateUUID() never repeats: uuids are      *)
(*    derived from the number of the turn that asks for them.              *)
(***************************************************************************)
EXTENDS Integers, Sequences, FiniteSets, TLC

VARIABLES
    impl,                  \* which chat implementation: "ChatContent" or "page"
    scope,                 \* which part of the behaviour is explored (see Specifications)
    conversations,         \* useState<Conversation[]>
    currentConversationId, \* useState<string | null>
    isLoading,             \* useState(false)
    streamingContent,      \* useState<string>("")
    sources,               \* useState<Source[]>([])
    toolState,             \* useState({ isActive: false })
    loadingConversationRef,\* useRef<string | null>(null)   (ChatContent only)
    session,               \* "in" until signOut() + router.push("/")
    turns,                 \* the closures of the send / edit handlers in flight
    nTurns,                \* number of send / edit handlers invoked so far
    loads,                 \* history fetches in flight (handleSelectConversation),
                           \* each with the conversation asked for
    nLoads,
    deletes,               \* backend deletes (handleDeleteConversation), with
                           \* how each one ended and the conversation it removed
    nDeletes,
    selected,              \* the conversation the user selected last
                           \* (handleSelectConversation), kept as history in
                           \* the specification of the selections
    parser,                \* one parseStreamResponse generator and the body it reads
    poller,                \* one call of waitForDocumentReady
    uploads,               \* the upload queue of the documents page
    bubble                 \* one ChatMessage instance of a user message

vars == <<impl, scope, conversations, currentConversationId, isLoading,
          streamingContent, sources, toolState, loadingConversationRef,
          session, turns, nTurns, loads, nLoads, deletes, nDeletes, selected,
          parser, poller, uploads, bubble>>

-----------------------------------------------------------------------------
(* Bounds of the model *)

MaxTurns == 2
MaxSerialTurns == 3
MaxStoreChunks == 1
MaxInFlight == 2
MaxChunks == 3
MaxLoads == 2
MaxDeletes == 1
MaxFrames == 3
MaxPolls == 6
MaxEdits == 3
MaxFiles == 5

Turns == 1..(IF MaxTurns > MaxSerialTurns THEN MaxTurns ELSE MaxSerialTurns)

-----------------------------------------------------------------------------
(* Optional values and identifiers *)

None == << >>
Some(v) == <<v>>
IsSome(o) == Len(o) > 0
Get(o) == o[1]

Id(k, i) == [kind |-> k, n |-> i]
NewId == Id("new", 0)
NullId == Id("null", 0)
TempId(t) == Id("temp", t)
UserMsgId(t) == Id("msg", t)
AiMsgId(t) == Id("ai", t)
SrvId(t) == Id("srv", t)
OtherSrvId(t) == Id("other", t)
BackendUserMsgId(t) == Id("umsg", t)
HistId(i) == Id("hist", i)

StartsWithTemp(id) == id.kind = "temp"

-----------------------------------------------------------------------------
(* Messages and conversations *)

Msg(id, role, content) ==
    [id |-> id, role |-> role, content |-> content, pairedHistory |-> << >>,
     sources |-> None, confidence |-> None, timings |-> None,
     toolResult |-> None, toolName |-> None]

Conv(id, messages) == [id |-> id, messages |-> messages]

HasMessage(conv, mid) == \E i \in 1..Len(conv.messages) : conv.messages[i].id = mid

AppendMessage(conv, m) == [conv EXCEPT !.messages = Append(@, m)]

HasConv(convs, id) == \E i \in 1..Len(convs) : convs[i].id = id

\* Array.prototype.findIndex: the first index that matches, 0 when none does
FindConvIndex(convs, id) ==
    IF HasConv(convs, id)
    THEN CHOOSE i \in 1..Len(convs) :
            /\ convs[i].id = id
            /\ \A j \in 1..(i - 1) : convs[j].id # id
    ELSE 0

FindMsgIndex(msgs, mid) ==
    IF \E i \in 1..Len(msgs) : msgs[i].id = mid
    THEN CHOOSE i \in 1..Len(msgs) :
            /\ msgs[i].id = mid
            /\ \A j \in 1..(i - 1) : msgs[j].id # mid
    ELSE 0

\* The fixed texts of the handlers
NoResponseText == <<"I received your message but had no response.">>
ErrorText(description) ==
    <<"Sorry, I encountered an error: ">> \o description
        \o <<". Please make sure the backend is running.">>


-----------------------------------------------------------------------------
(* Stream chunks (StreamChunk): one record shape, each variant filling only  *)
(* its own fields                                                            *)

BlankChunk ==
    [type |-> "none", conversation_id |-> None, user_message_id |-> None,
     text |-> << >>, hasContent |-> TRUE, srcs |-> << >>, conf |-> None, tool |-> None,
     message |-> None, data |-> None, error |-> None]

MetaChunk(cid, umid) ==
    [BlankChunk EXCEPT !.type = "meta", !.conversation_id = cid,
                       !.user_message_id = umid]
TokenChunk(text) == [BlankChunk EXCEPT !.type = "token", !.text = text]
SourcesChunk(list) == [BlankChunk EXCEPT !.type = "sources", !.srcs = list]
\* StreamChunk.content is optional: a sources chunk that has none
BareSourcesChunk == [BlankChunk EXCEPT !.type = "sources", !.hasContent = FALSE]
TimingChunk == [BlankChunk EXCEPT !.type = "timing"]
ConfidenceChunk(level) == [BlankChunk EXCEPT !.type = "confidence", !.conf = Some(level)]
ToolCallChunk(tool) == [BlankChunk EXCEPT !.type = "tool_call", !.tool = Some(tool)]
ToolProgressChunk(text) ==
    [BlankChunk EXCEPT !.type = "tool_progress", !.message = Some(text)]
ToolResultChunk(data) == [BlankChunk EXCEPT !.type = "tool_result", !.data = data]
ToolErrorChunk(err) == [BlankChunk EXCEPT !.type = "tool_error", !.error = Some(err)]

\* Source as sent in a `sources` chunk and as kept on a message
Src(title, preview, relevance) ==
    [title |-> title, text_preview |-> preview, relevance_score |-> relevance]

\* A source inside a tool_result payload:
\* { title, text_preview?, score (raw similarity), relevance_score (0-100) }.
\* The raw score is kept in tenths (8 is 0.8).
RawSrc(title, preview, score, relevance) ==
    [title |-> title, text_preview |-> preview, score |-> score,
     relevance_score |-> relevance]

\* ToolResultData: only its optional `sources` array matters to the reducer
ToolData(srcsOpt) == [sources |-> srcsOpt]

\* the payloads the backend is taken to send
ChunkSourceLists == { << >>, <<Src("A1", "pa", Some(70))>> }
ToolSourceLists ==
    { << >>,
      <<RawSrc("B2", None, Some(0), Some(0)), RawSrc("B1", Some("pb"), Some(8), Some(80))>> }
ToolDatas == {None, Some(ToolData(None))} \cup { Some(ToolData(Some(l))) : l \in ToolSourceLists }
TokenTexts == { << >>, <<"a">>, <<"b">> }

\* meta frames of one response: the conversation_id the backend uses for the
\* turn and the id it stored the user message under, either of them optional
MetaChunks(cid, umid) ==
    { MetaChunk(Some(cid), Some(umid)), MetaChunk(Some(cid), None),
      MetaChunk(None, Some(umid)) }

\* everything a response body can carry; a frame may also name a conversation
\* other than the one the earlier frames named
StreamChunks(cid, other, umid) ==
    MetaChunks(cid, umid)
        \cup { MetaChunk(Some(other), None) }
        \cup { TokenChunk(x) : x \in TokenTexts }
        \cup { SourcesChunk(l) : l \in ChunkSourceLists }
        \cup { TimingChunk, ConfidenceChunk("low"), ToolCallChunk("infographic_generator"),
               ToolProgressChunk("working"), ToolErrorChunk("tool failed") }
        \cup { ToolResultChunk(d) : d \in ToolDatas }

StoreChunks(cid, umid) ==
    { MetaChunk(Some(cid), Some(umid)), MetaChunk(None, Some(umid)), TokenChunk(<<"a">>),
      ToolCallChunk("infographic_generator") }

-----------------------------------------------------------------------------
(* The local variables of one handleSendMessage / handleEditMessage call *)

IdleTurn ==
    [kind |-> "none", pc |-> "idle",
     isNewConversation |-> FALSE, activeConversationId |-> NullId,
     closureConversationId |-> NullId, userMessageId |-> NullId,
     serverConversationId |-> NullId,
     fullContent |-> << >>, backendConversationId |-> NullId,
     currentSources |-> << >>, timingData |-> None, confidenceData |-> None,
     finalToolResult |-> None, finalToolName |-> None,
     log |-> << >>, outcome |-> "none",
     aiResponse |-> Msg(NullId, "none", << >>)]

\* tool_result: the payload's sources mapped into the Source shape.
\* ChatContent.tsx: text_preview: s.text_preview || s.text || "Source used ...",
\*                  relevance_score: s.relevance_score ?? null
ToolSourceContent(kind, s) ==
    Src(s.title,
        IF IsSome(s.text_preview) THEN Get(s.text_preview)
        ELSE IF kind = "send" THEN "Source used for infographic generation"
        ELSE "Source used for creation",
        s.relevance_score)

\* page.tsx: text_preview: "Source used ...", relevance_score: s.score || null
ToolSourcePage(kind, s) ==
    Src(s.title,
        IF kind = "send" THEN "Source used for infographic generation"
        ELSE "Source used for creation",
        IF IsSome(s.score) /\ Get(s.score) # 0 THEN s.score ELSE None)

ToolSource(im, kind, s) ==
    IF im = "ChatContent" THEN ToolSourceContent(kind, s) ELSE ToolSourcePage(kind, s)

ToolSources(im, kind, list) == [i \in 1..Len(list) |-> ToolSource(im, kind, list[i])]

\* chunk.data && chunk.data.sources && Array.isArray(...) && length > 0
HasToolSources(c) ==
    /\ IsSome(c.data)
    /\ IsSome(Get(c.data).sources)
    /\ Len(Get(Get(c.data).sources)) > 0

AppendTokenInFront(fullContent, text) == text \o fullContent

\* fullContent += chunk.content
AppendToken(fullContent, text) == fullContent \o text

\* whether the send loop's first branch takes the chunk
IsMetaWithConversation(c) == c.type = "meta" /\ IsSome(c.conversation_id)

\* the accumulators of the send loop after one chunk
SendAccumulate(im, tr, c) ==
    CASE IsMetaWithConversation(c) ->
            [tr EXCEPT !.backendConversationId = Get(c.conversation_id)]
      [] c.type = "sources" -> [tr EXCEPT !.currentSources = c.srcs]
      [] c.type = "token" -> [tr EXCEPT !.fullContent = AppendToken(@, c.text)]
      [] c.type = "timing" -> [tr EXCEPT !.timingData = Some("timing")]
      [] c.type = "confidence" -> [tr EXCEPT !.confidenceData = c.conf]
      [] c.type = "tool_call" -> [tr EXCEPT !.finalToolName = c.tool]
      [] c.type = "tool_result" ->
            [tr EXCEPT !.currentSources =
                          IF HasToolSources(c)
                          THEN ToolSources(im, tr.kind, Get(Get(c.data).sources)) ELSE @,
                       !.finalToolResult = c.data]
      [] OTHER -> tr

\* the edit loop has no meta branch
EditAccumulate(im, tr, c) ==
    IF c.type = "meta" THEN tr ELSE SendAccumulate(im, tr, c)

\* setSources: sources chunk, or tool_result carrying sources
LiveSources(im, kind, old, c) ==
    CASE c.type = "sources" -> c.srcs
      [] c.type = "tool_result" /\ HasToolSources(c) ->
            ToolSources(im, kind, Get(Get(c.data).sources))
      [] OTHER -> old

InactiveTool ==
    [isActive |-> FALSE, toolName |-> None, status |-> None, message |-> None,
     result |-> None, error |-> None]

\* setToolState
LiveToolState(old, c) ==
    CASE c.type = "tool_call" ->
            [InactiveTool EXCEPT !.isActive = TRUE, !.toolName = c.tool,
                                 !.status = Some("starting")]
      [] c.type = "tool_progress" ->
            [old EXCEPT !.status = Some("processing"), !.message = c.message]
      [] c.type = "tool_result" ->
            [old EXCEPT !.status = Some("complete"), !.result = c.data]
      [] c.type = "tool_error" ->
            [old EXCEPT !.status = Some("error"), !.error = c.error]
      [] OTHER -> old

FinalContentIgnoringTool(fullContent, finalToolResult) ==
    IF fullContent # << >> THEN fullContent ELSE NoResponseText

\* content: fullContent || (finalToolResult ? "" : "I received ...")
FinalContent(fullContent, finalToolResult) ==
    IF fullContent # << >> THEN fullContent
    ELSE IF IsSome(finalToolResult) THEN << >> ELSE NoResponseText

\* const aiResponse: Message = { ... }
AiResponse(id, tr) ==
    [Msg(id, "assistant", FinalContent(tr.fullContent, tr.finalToolResult))
        EXCEPT !.sources = Some(tr.currentSources),
               !.confidence = tr.confidenceData,
               !.timings = tr.timingData,
               !.toolResult = tr.finalToolResult,
               !.toolName = tr.finalToolName]

\* const errorMessage: Message = { ... }
ErrorMessage(id, description) == Msg(id, "assistant", ErrorText(description))

-----------------------------------------------------------------------------
(* parseStreamResponse: the text of a response body is a sequence of          *)
(* characters; "d" ":" stand for the prefix "data: " (two characters, so that  *)
(* a read can end inside it), "n" for a newline, "1" and "2" for the JSON text *)
(* of two chunks and "x" for text that is not JSON                             *)

\* the payloads that are JSON text
JsonTexts == {"1", "2"}

Payloads == JsonTexts \cup {"x"}

\* "data: <payload>\n\n"
Frame(payload) == <<"d", ":", payload, "n", "n">>

\* the body made of the frames with the given payloads
BodyOf(payloads) ==
    LET f[k \in 0..Len(payloads)] ==
            IF k = 0 THEN << >> ELSE f[k - 1] \o Frame(payloads[k])
    IN  f[Len(payloads)]

PayloadLists == UNION { [1..k -> Payloads] : k \in 0..MaxFrames }

\* buffer.split("\n\n"): the pieces between successive, non-overlapping
\* delimiters, the last piece being what follows the last delimiter
Split(buffer) ==
    LET delimiters(from) ==
            { i \in from..(Len(buffer) - 1) : buffer[i] = "n" /\ buffer[i + 1] = "n" }
        first(from) ==
            CHOOSE i \in delimiters(from) : \A j \in delimiters(from) : i <= j
        pieces[from \in 1..(Len(buffer) + 1)] ==
            IF delimiters(from) = {} THEN << SubSeq(buffer, from, Len(buffer)) >>
            ELSE << SubSeq(buffer, from, first(from) - 1) >> \o pieces[first(from) + 2]
    IN  pieces[1]

RemainderDropped(pieces) == << >>

\* buffer = lines.pop() || "": what follows the last delimiter is kept
Remainder(pieces) == pieces[Len(pieces)]

\* line.startsWith("data: ")
StartsWithData(line) == Len(line) >= 2 /\ line[1] = "d" /\ line[2] = ":"

\* line.slice(6)
JsonStr(line) == SubSeq(line, 3, Len(line))

ParsesAlways(jsonStr) == TRUE

\* JSON.parse(jsonStr) returns
Parses(jsonStr) == jsonStr \in { << payload >> : payload \in JsonTexts }

\* the generator before its first next()
NewParser(payloads, hasBody) ==
    [pc |-> "start", hasBody |-> hasBody, frames |-> payloads,
     body |-> BodyOf(payloads), buffer |-> << >>, lines |-> << >>,
     yielded |-> << >>, warned |-> 0, reads |-> 0, locked |-> FALSE,
     released |-> 0, outcome |-> "none"]

\* the for loop over lines, from where it stands to its next yield, or to its
\* end and the next reader.read()
Scan(p) ==
    LET hits == { k \in 1..Len(p.lines) :
                    StartsWithData(p.lines[k]) /\ Parses(JsonStr(p.lines[k])) }
        upto == IF hits = {} THEN Len(p.lines)
                ELSE CHOOSE k \in hits : \A l \in hits : k <= l
        skipped == { k \in 1..upto : StartsWithData(p.lines[k])
                                        /\ ~Parses(JsonStr(p.lines[k])) }
    IN  [p EXCEPT !.pc = IF hits = {} THEN "reading" ELSE "suspended",
                  !.yielded = IF hits = {} THEN @ ELSE Append(@, JsonStr(p.lines[upto])),
                  !.warned = @ + Cardinality(skipped),
                  !.lines = SubSeq(@, upto + 1, Len(@))]

KeepLocked(p, outcome) == [p EXCEPT !.pc = "closed", !.outcome = outcome]

\* finally { reader.releaseLock() } and the end of the generator
Finish(p, outcome) ==
    [p EXCEPT !.pc = "closed", !.outcome = outcome, !.locked = FALSE,
              !.released = @ + 1]

-----------------------------------------------------------------------------
(* waitForDocumentReady(documentId, onStatusChange, pollInterval, maxWaitMs):  *)
(* times are in milliseconds                                                   *)

DocumentStatus == {"pending", "processing", "completed", "failed"}

MaxBackoff == 30000

PollIntervals == {1000, 4000, 16000, 30000, 40000}

MaxWaits == {20000, 180000}

\* the time getDocumentStatus takes
Latencies == {0, 500}

Min(a, b) == IF a <= b THEN a ELSE b

BackoffUncapped(currentInterval) == currentInterval * 2

\* currentInterval = Math.min(currentInterval * 2, 30000)
Backoff(currentInterval) == Min(currentInterval * 2, MaxBackoff)

\* the call at its while test, startTime just taken
NewPoller(pollInterval, maxWaitMs) ==
    [pc |-> "loop", pollInterval |-> pollInterval, maxWaitMs |-> maxWaitMs,
     currentInterval |-> pollInterval, elapsed |-> 0, polls |-> 0,
     rateLimited |-> 0, delay |-> 0, status |-> "none", result |-> "none",
     error |-> "none"]

UnusedPoller == NewPoller(4000, 180000)

\* the documents page before any file is chosen: uploadQueueRef,
\* activeUploadsRef, uploadingFiles, the processUploadQueue invocations
\* suspended at an await, and as history the files started, in order
NoUploads ==
    [queue |-> << >>, active |-> 0, uploadingFiles |-> << >>, workers |-> {},
     started |-> << >>, nFiles |-> 0]

\* a ChatMessage of a user message: the conversation its message is in (the
\* prop message is the first message) and its useState currentVersionIndex
UnusedBubble == [conv |-> Conv(NullId, << >>), currentVersionIndex |-> 0]

-----------------------------------------------------------------------------
(* The state once the conversation list has been loaded and the UI is shown *)

\* what getConversationWithMessages returns for the listed conversation
HistoryMessages ==
    << [Msg(HistId(1), "user", <<"q1">>) EXCEPT
            !.pairedHistory = <<[userContent |-> <<"q0">>, assistantContent |-> <<"r0">>]>>],
       Msg(HistId(2), "assistant", <<"r1">>) >>

\* loadConversations: every listed conversation starts with messages: []
LoadedConversations == << Conv(SrvId(0), << >>) >>

InitCommon ==
    /\ conversations = LoadedConversations
    /\ currentConversationId = NewId
    /\ isLoading = FALSE
    /\ streamingContent = << >>
    /\ sources = << >>
    /\ toolState = InactiveTool
    /\ loadingConversationRef = NullId
    /\ session = "in"
    /\ turns = [t \in Turns |-> IdleTurn]
    /\ nTurns = 0
    /\ loads = {}
    /\ nLoads = 0
    /\ deletes = {}
    /\ nDeletes = 0
    /\ selected = NullId

\* the documents page and a single message bubble have specifications of
\* their own
OthersUnused ==
    /\ poller = UnusedPoller
    /\ uploads = NoUploads
    /\ bubble = UnusedBubble

\* in the specifications of the chat view the generator is part of Deliver
UnusedParser == NewParser(<< >>, TRUE)

Init ==
    impl = "ChatContent" /\ scope = "store" /\ InitCommon /\ parser = UnusedParser /\ OthersUnused

InitPage ==
    impl = "page" /\ scope = "store" /\ InitCommon /\ parser = UnusedParser /\ OthersUnused

InitStream ==
    /\ impl \in {"ChatContent", "page"}
    /\ scope = "stream"
    /\ InitCommon
    /\ parser = UnusedParser /\ OthersUnused

InitSerial ==
    /\ impl \in {"ChatContent", "page"}
    /\ scope = "serial"
    /\ InitCommon
    /\ parser = UnusedParser /\ OthersUnused

InitSelect ==
    /\ impl \in {"ChatContent", "page"}
    /\ scope = "select"
    /\ InitCommon
    /\ parser = UnusedParser /\ OthersUnused

\* one call of parseStreamResponse on a response with some body, or none
InitParse ==
    /\ impl = "ChatContent"
    /\ scope = "parse"
    /\ InitCommon
    /\ OthersUnused
    /\ \E payloads \in PayloadLists : \E hasBody \in BOOLEAN :
          /\ (~hasBody => payloads = << >>)
          /\ parser = NewParser(payloads, hasBody)

\* the bounds of each scope: one turn fed from the full chunk alphabet
\* ("stream"), overlapping turns ("store"), more turns one after the other
\* ("serial")
TurnLimit ==
    CASE scope = "stream" -> 1
      [] scope = "serial" -> MaxSerialTurns
      [] OTHER -> MaxTurns

InFlightLimit == IF scope = "store" THEN MaxInFlight ELSE 1

\* history fetches: several, overlapping, where turns overlap
LoadLimit == IF scope \in {"store", "select"} THEN MaxLoads ELSE 1

InFlight == { t \in Turns : turns[t].pc \in {"request", "stream"} }

\* When the handler has returned its locals are gone; the single-turn
\* specification keeps them, as the record of what the turn did
Retire(tr, outcome, aiResponse) ==
    IF scope = "stream"
    THEN [tr EXCEPT !.pc = "done", !.outcome = outcome, !.aiResponse = aiResponse]
    ELSE [IdleTurn EXCEPT !.pc = "done", !.kind = tr.kind, !.outcome = outcome]

\* a new turn can be started: the model's bounds on turns
MayStartTurn == nTurns < TurnLimit /\ Cardinality(InFlight) < InFlightLimit
ChunkLimit == IF scope = "stream" THEN MaxChunks ELSE MaxStoreChunks

-----------------------------------------------------------------------------
(* What is rendered *)

IsDraft(id) == id = NewId \/ id = NullId

\* const currentConversation = ... conversations.find(c => c.id === currentConversationId)
DisplayedMessages ==
    IF IsDraft(currentConversationId) \/ ~HasConv(conversations, currentConversationId)
    THEN << >>
    ELSE conversations[FindConvIndex(conversations, currentConversationId)].messages

\* page.tsx renders only "Loading..." when currentConversation is undefined
UIShown ==
    /\ session = "in"
    /\ impl = "page" =>
          (IsDraft(currentConversationId) \/ HasConv(conversations, currentConversationId))

\* BeeBotInput / ChatInput are disabled={isLoading}; page.tsx shows HomeView,
\* which is not given isLoading, while the displayed conversation is empty
CanSend ==
    IF impl = "page" /\ DisplayedMessages = << >> THEN TRUE ELSE ~isLoading

UserText == <<"q">>
EditText(t) == [i \in 1..t |-> "e"]

Finally ==
    /\ isLoading' = FALSE
    /\ streamingContent' = << >>
    /\ toolState' = InactiveTool

\* signOut(); router.push("/"): the chat view is unmounted and its state is
\* discarded with it
Unmounted ==
    /\ session' = "out"
    /\ conversations' = << >>
    /\ currentConversationId' = NullId
    /\ sources' = << >>
    /\ loadingConversationRef' = NullId
    /\ loads' = {}
    /\ deletes' = {}

-----------------------------------------------------------------------------
(* handleSendMessage up to its first await *)

SendMessage ==
    /\ UIShown
    /\ CanSend
    /\ MayStartTurn
    /\ LET t == nTurns + 1
           newUserMessage == Msg(UserMsgId(t), "user", UserText)
           isNew == IF impl = "page" THEN currentConversationId = NewId
                    ELSE IsDraft(currentConversationId)
       IN /\ IF isNew
             THEN /\ conversations' =
                        <<Conv(TempId(t), <<newUserMessage>>)>> \o conversations
                  /\ currentConversationId' = TempId(t)
             ELSE /\ conversations' =
                        [i \in 1..Len(conversations) |->
                            IF conversations[i].id = currentConversationId
                            THEN AppendMessage(conversations[i], newUserMessage)
                            ELSE conversations[i]]
                  /\ UNCHANGED currentConversationId
          /\ turns' = [turns EXCEPT ![t] =
                [IdleTurn EXCEPT !.kind = "send", !.pc = "request",
                                 !.isNewConversation = isNew,
                                 !.activeConversationId =
                                     IF isNew THEN NullId ELSE currentConversationId,
                                 !.closureConversationId = currentConversationId,
                                 !.userMessageId = UserMsgId(t)]]
          /\ nTurns' = t
    /\ isLoading' = TRUE
    /\ streamingContent' = << >>
    /\ sources' = << >>
    /\ UNCHANGED <<impl, scope, selected, parser, poller, uploads, bubble,
                   toolState, loadingConversationRef, session, loads, nLoads,
                   deletes, nDeletes>>

-----------------------------------------------------------------------------
(* handleEditMessage up to its await: truncate and keep the old pair *)

EditTruncate(conv, msgIndex, newContent) ==
    LET originalMessage == conv.messages[msgIndex]
        oldAssistantContent ==
            IF msgIndex + 1 <= Len(conv.messages)
               /\ conv.messages[msgIndex + 1].role = "assistant"
            THEN conv.messages[msgIndex + 1].content
            ELSE << >>
        updatedHistory ==
            Append(originalMessage.pairedHistory,
                   [userContent |-> originalMessage.content,
                    assistantContent |-> oldAssistantContent])
    IN  Append(SubSeq(conv.messages, 1, msgIndex - 1),
               [originalMessage EXCEPT !.content = newContent,
                                       !.pairedHistory = updatedHistory])

\* setConversations(prev => prev.map(c => c.id === currentConversationId ? ... : c))
ReplaceMessages(convs, id, messages) ==
    [i \in 1..Len(convs) |->
        IF convs[i].id = id THEN [convs[i] EXCEPT !.messages = messages]
        ELSE convs[i]]

\* the user messages shown, each with its edit control
EditableIds ==
    { DisplayedMessages[i].id : i \in { j \in 1..Len(DisplayedMessages) :
                                            DisplayedMessages[j].role = "user" } }

EditMessage(messageId) ==
    /\ UIShown
    /\ MayStartTurn
    /\ LET t == nTurns + 1
           convIndex == FindConvIndex(conversations, currentConversationId)
       IN /\ convIndex # 0
          /\ LET conv == conversations[convIndex]
                 msgIndex == FindMsgIndex(conv.messages, messageId)
             IN /\ msgIndex # 0
                /\ conversations' =
                      ReplaceMessages(conversations, currentConversationId,
                                      EditTruncate(conv, msgIndex, EditText(t)))
          /\ turns' = [turns EXCEPT ![t] =
                [IdleTurn EXCEPT !.kind = "edit", !.pc = "request",
                                 !.activeConversationId = currentConversationId,
                                 !.closureConversationId = currentConversationId,
                                 !.userMessageId = messageId]]
          /\ nTurns' = t
    /\ isLoading' = TRUE
    /\ streamingContent' = << >>
    /\ sources' = << >>
    /\ toolState' = InactiveTool
    /\ UNCHANGED <<impl, scope, selected, parser, poller, uploads, bubble,
                   currentConversationId, loadingConversationRef, session,
                   loads, nLoads, deletes, nDeletes>>

-----------------------------------------------------------------------------
(* The request resolves and the body is read: for await (const chunk of ...) *)

\* The backend creates a conversation when no conversation_id is sent, and
\* otherwise answers for the conversation it was asked about
Respond(t) ==
    /\ session = "in"
    /\ turns[t].pc = "request"
    /\ turns' = [turns EXCEPT ![t].pc = "stream",
                              ![t].serverConversationId =
                                  IF turns[t].isNewConversation THEN SrvId(t)
                                  ELSE turns[t].activeConversationId]
    /\ UNCHANGED <<impl, scope, selected, parser, poller, uploads, bubble,
                   conversations, currentConversationId, isLoading,
                   streamingContent, sources, toolState,
                   loadingConversationRef, session, nTurns, loads, nLoads,
                   deletes, nDeletes>>

Chunks(t) ==
    IF scope = "stream"
    THEN StreamChunks(turns[t].serverConversationId, OtherSrvId(t),
                      BackendUserMsgId(t))
    ELSE StoreChunks(turns[t].serverConversationId, BackendUserMsgId(t))

\* setConversations(prev => prev.map(c => ({...c, messages: c.messages.map(m =>
\*     m.id === newUserMessage.id ? { ...m, id: chunk.user_message_id } : m)})))
RewriteMessageId(convs, oldId, newId) ==
    [i \in 1..Len(convs) |->
        [convs[i] EXCEPT !.messages =
            [j \in 1..Len(convs[i].messages) |->
                IF convs[i].messages[j].id = oldId
                THEN [convs[i].messages[j] EXCEPT !.id = newId]
                ELSE convs[i].messages[j]]]]

\* if (chunk.type === "meta" && chunk.conversation_id) { ... if (chunk.user_message_id)
RewritesUserMessage(kind, c) ==
    kind = "send" /\ IsMetaWithConversation(c) /\ IsSome(c.user_message_id)

Deliver(t) ==
    /\ session = "in"
    /\ turns[t].pc = "stream"
    /\ Len(turns[t].log) < ChunkLimit
    /\ \E c \in Chunks(t) :
        LET tr == turns[t]
            next == IF tr.kind = "send" THEN SendAccumulate(impl, tr, c)
                    ELSE EditAccumulate(impl, tr, c)
        IN  /\ turns' = [turns EXCEPT ![t] = [next EXCEPT !.log = Append(tr.log, c)]]
            /\ conversations' =
                  IF RewritesUserMessage(tr.kind, c)
                  THEN RewriteMessageId(conversations, tr.userMessageId,
                                        Get(c.user_message_id))
                  ELSE conversations
            /\ streamingContent' =
                  IF c.type = "token" THEN next.fullContent ELSE streamingContent
            /\ sources' = LiveSources(impl, tr.kind, sources, c)
            /\ toolState' = LiveToolState(toolState, c)
    /\ UNCHANGED <<impl, scope, selected, parser, poller, uploads, bubble,
                   currentConversationId, isLoading, loadingConversationRef,
                   session, nTurns, loads, nLoads, deletes, nDeletes>>

-----------------------------------------------------------------------------
(* The stream ends: promotion, the final message, finally *)

\* setConversations(prev => prev.map(conv =>
\*     conv.id.startsWith("temp-") ? { ...conv, id: backendConversationId } : conv))
Promote(convs, backendConversationId) ==
    [i \in 1..Len(convs) |->
        IF StartsWithTemp(convs[i].id)
        THEN [convs[i] EXCEPT !.id = backendConversationId]
        ELSE convs[i]]

\* const shouldUpdate = conv.id === targetConvId || (isNewConversation && ...)
ShouldUpdate(im, tr, conv) ==
    LET targetConvId == IF tr.backendConversationId # NullId
                        THEN tr.backendConversationId ELSE tr.activeConversationId
    IN  \/ conv.id = targetConvId
        \/ tr.isNewConversation /\ StartsWithTemp(conv.id)
        \/ im = "ChatContent" /\ tr.isNewConversation
              /\ conv.id = tr.backendConversationId

AppendWhere(convs, m, hit) ==
    [i \in 1..Len(convs) |->
        IF hit[i] THEN AppendMessage(convs[i], m) ELSE convs[i]]

AppendAiResponse(im, tr, convs, m) ==
    AppendWhere(convs, m, [i \in 1..Len(convs) |-> ShouldUpdate(im, tr, convs[i])])

\* edit: prev.map(c => c.id === currentConversationId ? append : c)
AppendEditResponse(tr, convs, m) ==
    AppendWhere(convs, m, [i \in 1..Len(convs) |-> convs[i].id = tr.closureConversationId])

Promotes(tr) == tr.isNewConversation /\ tr.backendConversationId # NullId

StreamEnd(t) ==
    /\ session = "in"
    /\ turns[t].pc = "stream"
    /\ LET tr == turns[t]
           aiResponse == AiResponse(AiMsgId(t), tr)
           promoted == IF tr.kind = "send" /\ Promotes(tr)
                       THEN Promote(conversations, tr.backendConversationId)
                       ELSE conversations
       IN /\ conversations' =
                IF tr.kind = "send"
                THEN AppendAiResponse(impl, tr, promoted, aiResponse)
                ELSE AppendEditResponse(tr, promoted, aiResponse)
          /\ currentConversationId' =
                IF tr.kind = "send" /\ Promotes(tr)
                THEN tr.backendConversationId ELSE currentConversationId
          /\ turns' = [turns EXCEPT ![t] = Retire(tr, "finalized", aiResponse)]
    /\ Finally
    /\ UNCHANGED <<impl, scope, selected, parser, poller, uploads, bubble,
                   sources, loadingConversationRef, session, nTurns, loads,
                   nLoads, deletes, nDeletes>>

-----------------------------------------------------------------------------
(* catch (error): the request is rejected, or reading the body fails *)

\* addMessageToConversation(message, targetMessageId)
AddMessageToConversation(convs, m, targetMessageId) ==
    AppendWhere(convs, m, [i \in 1..Len(convs) |-> HasMessage(convs[i], targetMessageId)])

\* the catch block of the handler, for an error that is not a 401
CatchStore(tr, convs, m) ==
    IF tr.kind = "send" THEN AddMessageToConversation(convs, m, tr.userMessageId)
    ELSE convs

Catch(t, description, shouldReauth) ==
    /\ IF shouldReauth
       THEN /\ Unmounted
            /\ turns' = [turns EXCEPT ![t] = Retire(@, "signout", @.aiResponse)]
       ELSE /\ conversations' =
                  CatchStore(turns[t], conversations,
                             ErrorMessage(AiMsgId(t), description))
            /\ turns' = [turns EXCEPT ![t] = Retire(@, "error", @.aiResponse)]
            /\ UNCHANGED <<session, currentConversationId, sources,
                           loadingConversationRef, loads, deletes>>
    /\ Finally
    /\ UNCHANGED <<impl, scope, selected, parser, poller, uploads, bubble,
                   nTurns, nLoads, nDeletes>>

\* The body of the send loop throws: for a sources chunk without content,
\* setSources(undefined) is followed by the read of currentSources.length, a
\* TypeError.  The loop is left (the iterator is returned) and the catch block
\* runs.
LoopThrows(t) ==
    /\ session = "in"
    /\ turns[t].pc = "stream"
    /\ turns[t].kind = "send"
    /\ Len(turns[t].log) < ChunkLimit
    /\ LET tr == [turns[t] EXCEPT !.log = Append(@, BareSourcesChunk)]
       IN /\ conversations' =
                CatchStore(tr, conversations,
                           ErrorMessage(AiMsgId(t), <<"Cannot read properties of undefined">>))
          /\ turns' = [turns EXCEPT ![t] = Retire(tr, "abandoned", tr.aiResponse)]
    /\ sources' = << >>
    /\ Finally
    /\ UNCHANGED <<impl, scope, selected, parser, poller, uploads, bubble,
                   currentConversationId, loadingConversationRef, session,
                   nTurns, loads, nLoads, deletes, nDeletes>>

\* sendChatMessage / editMessage throws: handleResponse (401, 403, other) or fetch
RequestFails(t) ==
    /\ session = "in"
    /\ turns[t].pc = "request"
    /\ \E shouldReauth \in BOOLEAN :
          Catch(t, IF shouldReauth THEN <<"Authentication required">>
                   ELSE <<"Request failed">>, shouldReauth)

\* reader.read() rejects while the body is being read
BodyError(t) ==
    /\ session = "in"
    /\ turns[t].pc = "stream"
    /\ Catch(t, <<"network error">>, FALSE)

-----------------------------------------------------------------------------
(* The sidebar: new conversation, select, delete *)

StoreIds == { conversations[i].id : i \in 1..Len(conversations) }

\* handleNewConversation
NewConversation ==
    /\ UIShown
    /\ currentConversationId # NewId
    /\ currentConversationId' = NewId
    /\ UNCHANGED <<impl, scope, selected, parser, poller, uploads, bubble,
                   conversations, isLoading, streamingContent, sources,
                   toolState, loadingConversationRef, session, turns, nTurns,
                   loads, nLoads, deletes, nDeletes>>

\* the sources of the last assistant message that has any, as shown in the panel
LastAssistantSources(msgs) ==
    LET idx == { i \in 1..Len(msgs) : msgs[i].role = "assistant" }
    IN  IF idx = {} THEN None
        ELSE LET last == CHOOSE i \in idx : \A j \in idx : j <= i
             IN  IF IsSome(msgs[last].sources) /\ Len(Get(msgs[last].sources)) > 0
                 THEN msgs[last].sources ELSE None

\* setSources after a selection: ChatContent.tsx clears the panel when the last
\* assistant message has no sources, page.tsx leaves it as it is
SelectedSources(im, old, msgs) ==
    IF IsSome(LastAssistantSources(msgs)) THEN Get(LastAssistantSources(msgs))
    ELSE IF im = "ChatContent" THEN << >> ELSE old

\* handleSelectConversation(conversationId) for a listed conversation, up to
\* its await
SelectConversation(id) ==
    /\ UIShown
    /\ id \in StoreIds
    /\ impl = "ChatContent" => loadingConversationRef # id
    /\ LET existingConv == conversations[FindConvIndex(conversations, id)]
       IN IF Len(existingConv.messages) > 0
          THEN /\ currentConversationId' = id
               /\ loadingConversationRef' = NullId
               /\ sources' = SelectedSources(impl, sources, existingConv.messages)
               /\ UNCHANGED <<isLoading, loads, nLoads>>
          ELSE /\ nLoads < LoadLimit
               /\ loadingConversationRef' =
                     IF impl = "ChatContent" THEN id ELSE loadingConversationRef
               /\ isLoading' = TRUE
               /\ loads' = loads \cup {[id |-> id, n |-> nLoads + 1]}
               /\ nLoads' = nLoads + 1
               /\ UNCHANGED <<currentConversationId, sources>>
    /\ selected' = IF scope = "select" THEN id ELSE selected
    /\ UNCHANGED <<impl, scope, parser, poller, uploads, bubble,
                   conversations, streamingContent, toolState, session, turns,
                   nTurns, deletes, nDeletes>>

\* getConversationWithMessages resolves: the messages are replaced
LoadMessages(convs, id, messages) == ReplaceMessages(convs, id, messages)

LoadDone(load) ==
    /\ session = "in"
    /\ load \in loads
    /\ conversations' = LoadMessages(conversations, load.id, HistoryMessages)
    /\ currentConversationId' = load.id
    /\ sources' = SelectedSources(impl, sources, HistoryMessages)
    /\ isLoading' = FALSE
    /\ loadingConversationRef' = NullId
    /\ loads' = loads \ {load}
    /\ UNCHANGED <<impl, scope, selected, parser, poller, uploads, bubble,
                   streamingContent, toolState, session, turns, nTurns,
                   nLoads, deletes, nDeletes>>

\* getConversationWithMessages rejects
LoadFail(load) ==
    /\ session = "in"
    /\ load \in loads
    /\ \E shouldReauth \in BOOLEAN :
          IF shouldReauth
          THEN Unmounted
          ELSE /\ loadingConversationRef' = NullId
               /\ loads' = loads \ {load}
               /\ UNCHANGED <<session, conversations, currentConversationId,
                              sources, deletes>>
    /\ isLoading' = FALSE
    /\ UNCHANGED <<impl, scope, selected, parser, poller, uploads, bubble,
                   streamingContent, toolState, turns, nTurns, nLoads,
                   nDeletes>>

\* prev.filter(conv => conv.id !== id)
RemoveConversation(convs, id) ==
    LET keep == { i \in 1..Len(convs) : convs[i].id # id }
        Nth(k) == CHOOSE i \in keep : Cardinality({ j \in keep : j <= i }) = k
    IN  [k \in 1..Cardinality(keep) |-> convs[Nth(k)]]

\* if (currentConversationId === id) { remaining[0].id or handleNewConversation() }
AfterDeleteCurrent(convs, current, id) ==
    IF current # id THEN current
    ELSE IF Len(RemoveConversation(convs, id)) > 0
         THEN RemoveConversation(convs, id)[1].id
         ELSE NewId

\* handleDeleteConversation(id) up to its await; ChatContent.tsx removes a temp
\* conversation from the UI only and keeps the others for a rollback
DeleteConversation(id) ==
    /\ UIShown
    /\ id \in StoreIds
    /\ nDeletes < MaxDeletes
    /\ conversations' = RemoveConversation(conversations, id)
    /\ currentConversationId' =
          AfterDeleteCurrent(conversations, currentConversationId, id)
    /\ deletes' =
          IF impl = "ChatContent" /\ StartsWithTemp(id) THEN deletes
          ELSE deletes \cup
                 {[id |-> id,
                   saved |-> IF impl = "ChatContent"
                             THEN Some(conversations[FindConvIndex(conversations, id)])
                             ELSE None,
                   had |-> conversations[FindConvIndex(conversations, id)],
                   outcome |-> "pending"]}
    /\ nDeletes' = nDeletes + 1
    /\ UNCHANGED <<impl, scope, selected, parser, poller, uploads, bubble,
                   isLoading, streamingContent, sources, toolState,
                   loadingConversationRef, session, turns, nTurns, loads,
                   nLoads>>

\* apiDeleteConversation resolves
DeleteDone(d) ==
    /\ session = "in"
    /\ d \in deletes
    /\ d.outcome = "pending"
    /\ deletes' = (deletes \ {d}) \cup {[d EXCEPT !.outcome = "deleted"]}
    /\ UNCHANGED <<impl, scope, selected, parser, poller, uploads, bubble,
                   conversations, currentConversationId, isLoading,
                   streamingContent, sources, toolState,
                   loadingConversationRef, session, turns, nTurns, loads,
                   nLoads, nDeletes>>

\* apiDeleteConversation rejects: ChatContent.tsx puts the conversation back
RestoreConversation(convs, saved) ==
    IF IsSome(saved) THEN <<Get(saved)>> \o convs ELSE convs

DeleteFail(d) ==
    /\ session = "in"
    /\ d \in deletes
    /\ d.outcome = "pending"
    /\ deletes' = (deletes \ {d}) \cup {[d EXCEPT !.outcome = "failed"]}
    /\ conversations' = RestoreConversation(conversations, d.saved)
    /\ UNCHANGED <<impl, scope, selected, parser, poller, uploads, bubble,
                   currentConversationId, isLoading, streamingContent,
                   sources, toolState, loadingConversationRef, session, turns,
                   nTurns, loads, nLoads, nDeletes>>

-----------------------------------------------------------------------------
(* Specifications *)

Next ==
    \/ SendMessage
    \/ \E m \in EditableIds : EditMessage(m)
    \/ \E t \in Turns : Respond(t)
    \/ \E t \in Turns : Deliver(t)
    \/ \E t \in Turns : StreamEnd(t)
    \/ \E t \in Turns : RequestFails(t)
    \/ \E t \in Turns : BodyError(t)
    \/ \E t \in Turns : LoopThrows(t)
    \/ NewConversation
    \/ \E id \in StoreIds : SelectConversation(id)
    \/ \E load \in loads : LoadDone(load)
    \/ \E load \in loads : LoadFail(load)
    \/ \E id \in StoreIds : DeleteConversation(id)
    \/ \E d \in deletes : DeleteDone(d)
    \/ \E d \in deletes : DeleteFail(d)

\* components/chat/ChatContent.tsx: every handler, small chunk alphabet, up to
\* MaxTurns turns
Spec == Init /\ [][Next]_vars

\* app/chat/page.tsx, likewise
SpecPage == InitPage /\ [][Next]_vars

\* one send or edit turn fed from the full chunk alphabet
NextStream ==
    \/ SendMessage
    \/ \E m \in EditableIds : EditMessage(m)
    \/ \E t \in Turns : Respond(t)
    \/ \E t \in Turns : Deliver(t)
    \/ \E t \in Turns : StreamEnd(t)
    \/ \E t \in Turns : RequestFails(t)
    \/ \E t \in Turns : BodyError(t)
    \/ \E t \in Turns : LoopThrows(t)
    \/ nTurns = 0 /\ \E id \in StoreIds : SelectConversation(id)
    \/ nTurns = 0 /\ \E load \in loads : LoadDone(load)

SpecStream == InitStream /\ [][NextStream]_vars

\* up to MaxSerialTurns turns, each started after the one before has ended,
\* by a user who opens the listed conversation or starts new ones, with
\* well-formed chunks
NextSerial ==
    \/ SendMessage
    \/ \E m \in EditableIds : EditMessage(m)
    \/ \E t \in Turns : Respond(t)
    \/ \E t \in Turns : Deliver(t)
    \/ \E t \in Turns : StreamEnd(t)
    \/ \E t \in Turns : RequestFails(t)
    \/ \E t \in Turns : BodyError(t)
    \/ NewConversation
    \/ \E id \in StoreIds : SelectConversation(id)
    \/ \E load \in loads : LoadDone(load)

SpecSerial == InitSerial /\ [][NextSerial]_vars

\* selections and their history fetches, with sends one at a time
NextSelect ==
    \/ SendMessage
    \/ \E t \in Turns : Respond(t)
    \/ \E t \in Turns : Deliver(t)
    \/ \E t \in Turns : StreamEnd(t)
    \/ \E t \in Turns : RequestFails(t)
    \/ NewConversation
    \/ \E id \in StoreIds : SelectConversation(id)
    \/ \E load \in loads : LoadDone(load)
    \/ \E load \in loads : LoadFail(load)

SpecSelect == InitSelect /\ [][NextSelect]_vars

-----------------------------------------------------------------------------
(* parseStreamResponse as a generator: next(), reader.read(), return() *)

chatVars == <<impl, scope, conversations, currentConversationId, isLoading,
              streamingContent, sources, toolState, loadingConversationRef,
              session, turns, nTurns, loads, nLoads, deletes, nDeletes,
              selected>>

\* the consumer asks for the first chunk: getReader(), then the first read
ParseStart ==
    /\ scope = "parse"
    /\ parser.pc = "start"
    /\ parser' = IF parser.hasBody
                 THEN [parser EXCEPT !.pc = "reading", !.locked = TRUE]
                 ELSE [parser EXCEPT !.pc = "closed", !.outcome = "noBody"]
    /\ UNCHANGED <<chatVars, poller, uploads, bubble>>

\* the consumer asks for the next chunk: the generator goes on after its yield
ParseNext ==
    /\ parser.pc = "suspended"
    /\ parser' = Scan(parser)
    /\ UNCHANGED <<chatVars, poller, uploads, bubble>>

\* reader.read() resolves with some more of the body
ReadValue ==
    /\ parser.pc = "reading"
    /\ \E k \in 1..Len(parser.body) :
          LET pieces == Split(parser.buffer \o SubSeq(parser.body, 1, k))
          IN  parser' =
                Scan([parser EXCEPT
                        !.body = SubSeq(@, k + 1, Len(@)),
                        !.reads = @ + 1,
                        !.buffer = Remainder(pieces),
                        !.lines = SubSeq(pieces, 1, Len(pieces) - 1)])
    /\ UNCHANGED <<chatVars, poller, uploads, bubble>>

\* reader.read() resolves with done: break, finally
ReadDone ==
    /\ parser.pc = "reading"
    /\ parser.body = << >>
    /\ parser' = Finish([parser EXCEPT !.reads = @ + 1], "done")
    /\ UNCHANGED <<chatVars, poller, uploads, bubble>>

\* reader.read() rejects: finally, and the error is thrown to the consumer
ReadRejects ==
    /\ parser.pc = "reading"
    /\ parser' = Finish([parser EXCEPT !.reads = @ + 1], "readError")
    /\ UNCHANGED <<chatVars, poller, uploads, bubble>>

\* the consumer leaves its loop: return() at the yield, finally
IteratorReturn ==
    /\ parser.pc = "suspended"
    /\ parser' = Finish(parser, "returned")
    /\ UNCHANGED <<chatVars, poller, uploads, bubble>>

NextParse ==
    \/ ParseStart
    \/ ParseNext
    \/ ReadValue
    \/ ReadDone
    \/ ReadRejects
    \/ IteratorReturn

SpecParse == InitParse /\ [][NextParse]_vars

-----------------------------------------------------------------------------
(* waitForDocumentReady: the while test, the poll, the wait *)

InitPoll ==
    /\ impl = "ChatContent"
    /\ scope = "poll"
    /\ InitCommon
    /\ parser = UnusedParser
    /\ uploads = NoUploads
    /\ bubble = UnusedBubble
    /\ \E pollInterval \in PollIntervals : \E maxWaitMs \in MaxWaits :
          poller = NewPoller(pollInterval, maxWaitMs)

\* while (Date.now() - startTime < maxWaitMs), and after it the timeout error
LoopTest ==
    /\ scope = "poll"
    /\ poller.pc = "loop"
    /\ poller.polls < MaxPolls
    /\ poller' =
          IF poller.elapsed < poller.maxWaitMs
          THEN [poller EXCEPT !.pc = "request", !.polls = @ + 1]
          ELSE [poller EXCEPT !.pc = "thrown", !.error = "timeout"]
    /\ UNCHANGED <<chatVars, parser, uploads, bubble>>

\* getDocumentStatus resolves: onStatusChange, return of a final document, or
\* the interval is reset and the wait starts
PollResolves(status, latency) ==
    /\ poller.pc = "request"
    /\ poller' =
          IF status \in {"completed", "failed"}
          THEN [poller EXCEPT !.pc = "returned", !.status = status,
                              !.result = status, !.elapsed = @ + latency]
          ELSE [poller EXCEPT !.pc = "sleep", !.status = status,
                              !.elapsed = @ + latency, !.rateLimited = 0,
                              !.currentInterval = poller.pollInterval,
                              !.delay = poller.pollInterval]
    /\ UNCHANGED <<chatVars, parser, uploads, bubble>>

\* getDocumentStatus throws ApiError with status 429
PollRateLimited(latency) ==
    /\ poller.pc = "request"
    /\ poller' = [poller EXCEPT !.pc = "sleep", !.elapsed = @ + latency,
                                !.rateLimited = @ + 1,
                                !.currentInterval = Backoff(@),
                                !.delay = Backoff(poller.currentInterval)]
    /\ UNCHANGED <<chatVars, parser, uploads, bubble>>

\* getDocumentStatus throws anything else: rethrown
PollFails(latency) ==
    /\ poller.pc = "request"
    /\ poller' = [poller EXCEPT !.pc = "thrown", !.error = "other",
                                !.elapsed = @ + latency]
    /\ UNCHANGED <<chatVars, parser, uploads, bubble>>

\* setTimeout(resolve, currentInterval) fires
TimerFires ==
    /\ poller.pc = "sleep"
    /\ poller' = [poller EXCEPT !.pc = "loop", !.elapsed = @ + poller.delay]
    /\ UNCHANGED <<chatVars, parser, uploads, bubble>>

NextPoll ==
    \/ LoopTest
    \/ \E status \in DocumentStatus : \E latency \in Latencies :
          PollResolves(status, latency)
    \/ \E latency \in Latencies : PollRateLimited(latency)
    \/ \E latency \in Latencies : PollFails(latency)
    \/ TimerFires

SpecPoll == InitPoll /\ [][NextPoll]_vars

-----------------------------------------------------------------------------
(* ChatMessage of a user message: version navigation over pairedHistory.  The *)
(* instance is keyed by the message id, so it lives on when the message is     *)
(* edited.  Indexes are those of the code, from 0.                             *)

\* [...message.pairedHistory, { userContent: message.content, assistantContent: '' }]
pairedVersions(message) ==
    message.pairedHistory \o
        << [userContent |-> message.content, assistantContent |-> << >>] >>

totalVersions(message) == Len(pairedVersions(message))

\* pairedVersions[currentVersionIndex]
currentPair(b) == pairedVersions(b.conv.messages[1])[b.currentVersionIndex + 1]

\* currentPair?.userContent || message.content
displayedContent(b) ==
    IF currentPair(b).userContent # << >> THEN currentPair(b).userContent
    ELSE b.conv.messages[1].content

\* currentPair?.assistantContent || ''
displayedResponse(b) == currentPair(b).assistantContent

\* displayedResponse && currentVersionIndex < totalVersions - 1
ShowsHistoricalResponse(b) ==
    /\ displayedResponse(b) # << >>
    /\ b.currentVersionIndex < totalVersions(b.conv.messages[1]) - 1

\* useState(pairedVersions.length - 1) when the instance is mounted
InitialVersionIndex(message) == totalVersions(message) - 1

BubbleContents == { <<"q">>, <<"e">>, <<"e", "e">> }

\* a conversation of one user message, with the reply when it has arrived
NewBubble(hasReply) ==
    LET conv == Conv(SrvId(0),
                     <<Msg(UserMsgId(1), "user", UserText)>> \o
                     (IF hasReply THEN <<Msg(AiMsgId(1), "assistant", <<"r">>)>>
                      ELSE << >>))
    IN  [conv |-> conv,
         currentVersionIndex |-> InitialVersionIndex(conv.messages[1])]

InitBubble ==
    /\ impl \in {"ChatContent", "page"}
    /\ scope = "bubble"
    /\ InitCommon
    /\ parser = UnusedParser
    /\ poller = UnusedPoller
    /\ uploads = NoUploads
    /\ \E hasReply \in BOOLEAN : bubble = NewBubble(hasReply)

\* handleEditSubmit: onEdit(message.id, editContent), the store is truncated
\* and the same instance is rendered with the new message
BubbleEdit(editContent) ==
    /\ scope = "bubble"
    /\ editContent # bubble.conv.messages[1].content
    /\ Len(bubble.conv.messages[1].pairedHistory) < MaxEdits
    /\ bubble' = [bubble EXCEPT
                     !.conv.messages = EditTruncate(bubble.conv, 1, editContent)]
    /\ UNCHANGED <<chatVars, parser, poller, uploads>>

\* the reply to the message arrives and is appended after it
BubbleReply(content) ==
    /\ scope = "bubble"
    /\ Len(bubble.conv.messages) = 1
    /\ bubble' = [bubble EXCEPT
                     !.conv = AppendMessage(@, Msg(AiMsgId(1), "assistant", content))]
    /\ UNCHANGED <<chatVars, parser, poller, uploads>>

\* setCurrentVersionIndex(i => Math.max(0, i - 1)); disabled at index 0
PreviousVersion ==
    /\ scope = "bubble"
    /\ totalVersions(bubble.conv.messages[1]) > 1
    /\ bubble.currentVersionIndex # 0
    /\ bubble' = [bubble EXCEPT !.currentVersionIndex =
                                    IF @ - 1 > 0 THEN @ - 1 ELSE 0]
    /\ UNCHANGED <<chatVars, parser, poller, uploads>>

\* setCurrentVersionIndex(i => Math.min(totalVersions - 1, i + 1)); disabled at
\* the last index
NextVersion ==
    /\ scope = "bubble"
    /\ totalVersions(bubble.conv.messages[1]) > 1
    /\ bubble.currentVersionIndex # totalVersions(bubble.conv.messages[1]) - 1
    /\ bubble' = [bubble EXCEPT !.currentVersionIndex =
                                    Min(totalVersions(bubble.conv.messages[1]) - 1, @ + 1)]
    /\ UNCHANGED <<chatVars, parser, poller, uploads>>

\* the conversation is left and shown again: a new instance is mounted
Remount ==
    /\ scope = "bubble"
    /\ bubble' = [bubble EXCEPT !.currentVersionIndex =
                                    InitialVersionIndex(bubble.conv.messages[1])]
    /\ UNCHANGED <<chatVars, parser, poller, uploads>>

NextBubble ==
    \/ \E editContent \in BubbleContents : BubbleEdit(editContent)
    \/ \E content \in {<<"r">>, <<"s">>} : BubbleReply(content)
    \/ PreviousVersion
    \/ NextVersion
    \/ Remount

SpecBubble == InitBubble /\ [][NextBubble]_vars

-----------------------------------------------------------------------------
(* The documents page: handleFiles, processUploadQueue, removeUpload.  A step *)
(* is the code that runs between two awaits.                                   *)

MAX_CONCURRENT_UPLOADS == 3

\* prev.map(f => f.id === id ? { ...f, status } : f)
SetStatus(files, id, status) ==
    [i \in 1..Len(files) |->
        IF files[i].id = id THEN [files[i] EXCEPT !.status = status] ELSE files[i]]

\* the elements of a list at the indexes kept, in order
Kept(list, keep) ==
    LET Nth(k) == CHOOSE i \in keep : Cardinality({ j \in keep : j <= i }) = k
    IN  [k \in 1..Cardinality(keep) |-> list[Nth(k)]]

\* setUploadingFiles(prev => prev.filter(f => f.id !== fileId))
WithoutFile(files, fileId) ==
    Kept(files, { i \in 1..Len(files) : files[i].id # fileId })

\* uploadQueueRef.current.filter(f => f.id !== fileId)
WithoutQueued(queue, fileId) ==
    Kept(queue, { i \in 1..Len(queue) : queue[i] # fileId })

MayStartAlways(u) == u.queue # << >>

\* uploadQueueRef.current.length > 0 && activeUploadsRef.current < MAX_CONCURRENT_UPLOADS
MayStart(u) == u.queue # << >> /\ u.active < MAX_CONCURRENT_UPLOADS

\* processUploadQueue from its while test to its first await: a file is taken
\* from the queue and its upload is started, or the invocation ends
RunQueue(u) ==
    IF MayStart(u)
    THEN LET fileToUpload == Head(u.queue)
         IN  [u EXCEPT !.queue = Tail(@),
                       !.active = @ + 1,
                       !.uploadingFiles = SetStatus(@, fileToUpload, "uploading"),
                       !.workers = @ \cup {[file |-> fileToUpload, stage |-> "upload"]},
                       !.started = Append(@, fileToUpload)]
    ELSE u

\* finally { activeUploadsRef.current--; processUploadQueue() } and then the
\* while test of the invocation that was waiting
EndOfUpload(u, worker, status) ==
    RunQueue(RunQueue([u EXCEPT !.active = @ - 1,
                                !.workers = @ \ {worker},
                                !.uploadingFiles = SetStatus(@, worker.file, status)]))

InitUploads ==
    /\ impl = "ChatContent"
    /\ scope = "uploads"
    /\ InitCommon
    /\ parser = UnusedParser
    /\ poller = UnusedPoller
    /\ bubble = UnusedBubble
    /\ uploads = NoUploads

\* handleFiles(files) with n files
HandleFiles(n) ==
    /\ scope = "uploads"
    /\ uploads.nFiles + n <= MaxFiles
    /\ LET newIds == [k \in 1..n |-> uploads.nFiles + k]
           newFiles == [k \in 1..n |-> [id |-> newIds[k], status |-> "queued"]]
       IN  uploads' = RunQueue([uploads EXCEPT !.uploadingFiles = @ \o newFiles,
                                               !.queue = @ \o newIds,
                                               !.nFiles = @ + n])
    /\ UNCHANGED <<chatVars, parser, poller, bubble>>

\* uploadDocument resolves: the file is processing, waitForDocumentReady starts
UploadResolves(worker) ==
    /\ worker \in uploads.workers
    /\ worker.stage = "upload"
    /\ uploads' = [uploads EXCEPT
                      !.workers = (@ \ {worker}) \cup {[worker EXCEPT !.stage = "processing"]},
                      !.uploadingFiles = SetStatus(@, worker.file, "processing")]
    /\ UNCHANGED <<chatVars, parser, poller, bubble>>

\* uploadDocument rejects: catch, finally
UploadRejects(worker) ==
    /\ worker \in uploads.workers
    /\ worker.stage = "upload"
    /\ uploads' = EndOfUpload(uploads, worker, "failed")
    /\ UNCHANGED <<chatVars, parser, poller, bubble>>

\* waitForDocumentReady returns the final document, or throws: finally
ProcessingEnds(worker, status) ==
    /\ worker \in uploads.workers
    /\ worker.stage = "processing"
    /\ uploads' = EndOfUpload(uploads, worker, status)
    /\ UNCHANGED <<chatVars, parser, poller, bubble>>

\* removeUpload(fileId)
RemoveUpload(fileId) ==
    /\ scope = "uploads"
    /\ \E i \in 1..Len(uploads.uploadingFiles) : uploads.uploadingFiles[i].id = fileId
    /\ uploads' = [uploads EXCEPT
                      !.uploadingFiles = WithoutFile(@, fileId),
                      !.queue = WithoutQueued(@, fileId)]
    /\ UNCHANGED <<chatVars, parser, poller, bubble>>

NextUploads ==
    \/ \E n \in 1..MaxFiles : HandleFiles(n)
    \/ \E worker \in uploads.workers : UploadResolves(worker)
    \/ \E worker \in uploads.workers : UploadRejects(worker)
    \/ \E worker \in uploads.workers : \E status \in {"completed", "failed"} :
          ProcessingEnds(worker, status)
    \/ \E fileId \in 1..MaxFiles : RemoveUpload(fileId)

SpecUploads == InitUploads /\ [][NextUploads]_vars

-----------------------------------------------------------------------------
(* Properties of one turn's stream, checked under SpecStream *)

\* a turn whose stream ended normally; its record keeps the chunks it was fed
Finalized(t) == turns[t].pc = "done" /\ turns[t].outcome = "finalized"

\* t1 + t2 + ... + tn over the token chunks of a chunk sequence
TokenConcat(log) ==
    LET f[n \in 0..Len(log)] ==
            IF n = 0 THEN << >>
            ELSE f[n - 1] \o (IF log[n].type = "token" THEN log[n].text ELSE << >>)
    IN  f[Len(log)]

NoToken(log) == \A k \in 1..Len(log) : log[k].type # "token"
HasToolResult(log) == \E k \in 1..Len(log) : log[k].type = "tool_result"

\* the last tool_result chunk of the sequence carried a data payload
LastToolResultHasData(log) ==
    \E k \in 1..Len(log) :
        /\ log[k].type = "tool_result"
        /\ IsSome(log[k].data)
        /\ \A l \in (k + 1)..Len(log) : log[l].type # "tool_result"

\* C1 (as stated): the finalized content of a send or edit turn is the
\* concatenation, in arrival order, of the payloads of all its token chunks,
\* whatever else is interleaved and whatever the payloads are.
C1_ContentIsTokenConcat ==
    \A t \in Turns :
        Finalized(t) => turns[t].aiResponse.content = TokenConcat(turns[t].log)

\* C1 (amended): the finalized content is that concatenation whenever the
\* concatenation is not empty; when it is empty the content is the empty
\* string if the last tool_result chunk carried a data payload and the fixed
\* no-response text otherwise.
C1_ContentIsTokenConcatOrFallback ==
    \A t \in Turns :
        Finalized(t) =>
            turns[t].aiResponse.content =
                IF TokenConcat(turns[t].log) # << >> THEN TokenConcat(turns[t].log)
                ELSE IF LastToolResultHasData(turns[t].log) THEN << >>
                ELSE NoResponseText

\* two tokens with another chunk between them have been concatenated in order
C1_Witness ==
    \E t \in Turns :
        /\ Finalized(t)
        /\ Len(turns[t].log) = 3
        /\ turns[t].log[1].type = "token" /\ turns[t].log[1].text = <<"a">>
        /\ turns[t].log[2].type \notin {"token"}
        /\ turns[t].log[3].type = "token" /\ turns[t].log[3].text = <<"b">>
        /\ turns[t].aiResponse.content = <<"a", "b">>

\* C4 (as stated): with no token chunk, the finalized content is the fixed
\* no-response text when no tool_result chunk arrived and the empty string
\* when one did, whatever its data payload (an absent one included).
C4_NoTokenContent ==
    \A t \in Turns :
        Finalized(t) /\ NoToken(turns[t].log) =>
            turns[t].aiResponse.content =
                IF HasToolResult(turns[t].log) THEN << >> ELSE NoResponseText

\* C4 (amended): with no token chunk, the finalized content is the empty string
\* when the last tool_result chunk carried a data payload, and the fixed
\* no-response text otherwise (no tool_result, or the last one without data).
C4_NoTokenContentByToolData ==
    \A t \in Turns :
        Finalized(t) /\ NoToken(turns[t].log) =>
            turns[t].aiResponse.content =
                IF LastToolResultHasData(turns[t].log) THEN << >> ELSE NoResponseText

\* a turn without tokens whose tool_result had data ended with empty content
C4_Witness ==
    \E t \in Turns :
        /\ Finalized(t)
        /\ NoToken(turns[t].log)
        /\ LastToolResultHasData(turns[t].log)
        /\ turns[t].aiResponse.content = << >>

\* whether a chunk replaces the source list: a sources chunk, or a tool_result
\* whose payload has a non-empty sources array
SetsSources(c) == c.type = "sources" \/ (c.type = "tool_result" /\ HasToolSources(c))

\* the title and the normalized percentage of each source of a list, in order
TitledPercentages(list) ==
    [i \in 1..Len(list) |->
        [title |-> list[i].title, relevance_score |-> list[i].relevance_score]]

\* C5: when a sources chunk with list A is followed by a tool_result chunk and
\* nothing else names sources in between or afterwards, then the finalized
\* message's sources and the live source list are the payload's sources B in
\* B's order, each with the payload's normalized percentage, if B is not
\* empty, and are A if the payload has no sources; in both implementations.
C5_ToolSourcesReplace ==
    \A t \in Turns :
        Finalized(t) =>
            \A i \in 1..Len(turns[t].log) : \A j \in (i + 1)..Len(turns[t].log) :
                LET log == turns[t].log IN
                ( /\ log[i].type = "sources"
                  /\ log[j].type = "tool_result"
                  /\ \A l \in ((i + 1)..Len(log)) \ {j} : ~SetsSources(log[l]) )
                =>
                IF HasToolSources(log[j])
                THEN /\ IsSome(turns[t].aiResponse.sources)
                     /\ TitledPercentages(Get(turns[t].aiResponse.sources)) =
                            TitledPercentages(Get(Get(log[j].data).sources))
                     /\ TitledPercentages(sources) =
                            TitledPercentages(Get(Get(log[j].data).sources))
                ELSE /\ turns[t].aiResponse.sources = Some(log[i].srcs)
                     /\ sources = log[i].srcs

\* the conversations that hold the user message of turn t, under its local id
\* or under the id the backend gave it
HoldsUserMessage(conv, t) ==
    HasMessage(conv, UserMsgId(t)) \/ HasMessage(conv, BackendUserMsgId(t))

MetaIndexes(log) ==
    { k \in 1..Len(log) : log[k].type = "meta" /\ IsSome(log[k].conversation_id) }

FirstMetaConversationId(log) ==
    Get(log[CHOOSE k \in MetaIndexes(log) : \A l \in MetaIndexes(log) : k <= l].conversation_id)

\* C9: the conversation created by a turn started from the draft keeps its
\* provisional id until it is given, once, the conversation_id of the first
\* meta frame of that turn's stream; later meta frames do not change which id
\* that is.
C9_PromotedToFirstMeta ==
    \A t \in Turns :
        turns[t].kind = "send" /\ turns[t].isNewConversation =>
            \A i \in 1..Len(conversations) :
                HoldsUserMessage(conversations[i], t) =>
                    \/ conversations[i].id = TempId(t)
                    \/ /\ Finalized(t)
                       /\ MetaIndexes(turns[t].log) # {}
                       /\ conversations[i].id = FirstMetaConversationId(turns[t].log)

\* C10: in a send turn, once a meta chunk carrying user_message_id has been
\* processed (with or without a conversation_id), no message of the store has
\* the locally generated id of the turn's user message, and the user message,
\* otherwise as it was, has the id the chunk gave.
C10_UserMessageIdRewritten ==
    \A t \in Turns :
        ( /\ turns[t].kind = "send"
          /\ session = "in"
          /\ \E k \in 1..Len(turns[t].log) :
                turns[t].log[k].type = "meta" /\ IsSome(turns[t].log[k].user_message_id) )
        =>
        /\ \A i \in 1..Len(conversations) : ~HasMessage(conversations[i], UserMsgId(t))
        /\ \E i \in 1..Len(conversations) : \E j \in 1..Len(conversations[i].messages) :
                conversations[i].messages[j] = Msg(BackendUserMsgId(t), "user", UserText)

-----------------------------------------------------------------------------
(* Properties of the conversation store, checked on the steps of the handlers *)

\* the step in which the handler of turn t returns
Finishes(t) == turns[t].pc \in {"request", "stream"} /\ turns'[t].pc = "done"

\* where in a store the message with a given id is
Places(convs, mid) ==
    UNION { { <<i, j>> : j \in { k \in 1..Len(convs[i].messages) :
                                    convs[i].messages[k].id = mid } } :
            i \in 1..Len(convs) }

\* the turn's conversation is still in the store
ConversationKept(t) ==
    IF turns[t].kind = "send"
    THEN \E i \in 1..Len(conversations) : HoldsUserMessage(conversations[i], t)
    ELSE HasConv(conversations, turns[t].closureConversationId)

\* C2: a send or edit whose request was issued and that does not end in a 401
\* sign-out ends with exactly one new assistant message of its own in the
\* store, whether the stream completed, the request was rejected or the body
\* failed mid-stream.
C2_OneAssistantMessagePerTurn ==
    [][ \A t \in Turns :
          ( /\ Finishes(t)
            /\ turns'[t].outcome # "signout"
            /\ ConversationKept(t) )
          =>
          /\ Places(conversations, AiMsgId(t)) = {}
          /\ Cardinality(Places(conversations', AiMsgId(t))) = 1
          /\ \A pl \in Places(conversations', AiMsgId(t)) :
                conversations'[pl[1]].messages[pl[2]].role = "assistant" ]_vars

\* C3: when a send fails in transport, exactly one message with the fixed
\* error text and no sources, confidence, tool result or partial content is
\* appended, and it is appended to the conversation holding the turn's user
\* message, also when that message's id was rewritten by a meta frame before.
C3_ErrorMessageOnOriginatingConversation ==
    [][ \A t \in Turns :
          ( /\ turns[t].kind = "send"
            /\ Finishes(t)
            /\ turns'[t].outcome = "error"
            /\ \E i \in 1..Len(conversations) : HoldsUserMessage(conversations[i], t) )
          =>
          /\ Cardinality(Places(conversations', AiMsgId(t))) = 1
          /\ \A pl \in Places(conversations', AiMsgId(t)) :
                /\ HoldsUserMessage(conversations[pl[1]], t)
                /\ pl[2] = Len(conversations[pl[1]].messages) + 1
                /\ \E description \in {<<"Request failed">>, <<"network error">>} :
                      conversations'[pl[1]].messages[pl[2]] =
                          Msg(AiMsgId(t), "assistant", ErrorText(description)) ]_vars

\* the step in which handleEditMessage truncates and resubmits
EditStarts == nTurns' = nTurns + 1 /\ turns'[nTurns'].kind = "edit"

\* C6: editing message m_i of the current conversation leaves that conversation
\* with exactly m_0..m_(i-1) and m_i with the new content and one more
\* pairedHistory entry (its old content and the content of the assistant
\* message that followed it, or ''), and leaves every other conversation as it
\* was.
C6_EditTruncatesCurrentOnly ==
    [][ EditStarts =>
          LET ci == FindConvIndex(conversations, currentConversationId)
              old == conversations[ci].messages
              mi == FindMsgIndex(old, turns'[nTurns'].userMessageId)
              followed == mi < Len(old) /\ old[mi + 1].role = "assistant"
              entry == [userContent |-> old[mi].content,
                        assistantContent |-> IF followed THEN old[mi + 1].content
                                             ELSE << >>]
          IN  /\ Len(conversations') = Len(conversations)
              /\ conversations'[ci].id = conversations[ci].id
              /\ conversations'[ci].messages =
                    SubSeq(old, 1, mi - 1) \o
                    << [old[mi] EXCEPT !.content = EditText(nTurns'),
                                       !.pairedHistory = old[mi].pairedHistory \o <<entry>>] >>
              /\ \A k \in 1..Len(conversations) :
                    k # ci => conversations'[k] = conversations[k] ]_vars

\* the step in which a send turn started from the draft ends its stream
\* normally having been told a conversation_id
PromotionStep(t) ==
    /\ turns[t].kind = "send"
    /\ turns[t].pc = "stream"
    /\ Promotes(turns[t])
    /\ turns'[t].pc = "done"
    /\ turns'[t].outcome = "finalized"

ConversationIds(convs) == [i \in 1..Len(convs) |-> convs[i].id]

\* C7: promotion applied twice with the same ids leaves the store as applying
\* it once does, and when no conversation has the turn's provisional id any
\* more, promotion changes no conversation's id.
C7_PromotionIdempotent ==
    [][ \A t \in Turns :
          PromotionStep(t) =>
            /\ Promote(Promote(conversations, turns[t].backendConversationId),
                       turns[t].backendConversationId)
                 = Promote(conversations, turns[t].backendConversationId)
            /\ ~HasConv(conversations, TempId(t)) =>
                  ConversationIds(conversations') = ConversationIds(conversations) ]_vars

\* C8: promotion at the end of a new-conversation turn renames the provisional
\* conversation that turn created, where it is and with the messages it has
\* (the turn's reply is then added to it), and changes neither the id nor the
\* messages of any other conversation, provisional ones of earlier turns
\* included.
C8_PromotionRenamesOwnOnly ==
    [][ \A t \in Turns :
          PromotionStep(t) =>
            /\ Len(conversations') = Len(conversations)
            /\ \A i \in 1..Len(conversations) :
                  IF conversations[i].id = TempId(t)
                  THEN /\ conversations'[i].id = turns[t].backendConversationId
                       /\ SubSeq(conversations'[i].messages, 1,
                                 Len(conversations[i].messages))
                            = conversations[i].messages
                  ELSE conversations'[i] = conversations[i] ]_vars

-----------------------------------------------------------------------------
(* Properties of the tool state and of the tool fields of the final message *)

\* the moves of toolState.status that follow starting -> processing ->
\* (complete | error)
StatusMoves ==
    { <<None, Some("starting")>>,
      <<Some("starting"), Some("processing")>>,
      <<Some("starting"), Some("complete")>>,
      <<Some("starting"), Some("error")>>,
      <<Some("processing"), Some("complete")>>,
      <<Some("processing"), Some("error")>> }

\* C11: within a turn toolState.status is only set while a tool_call has made
\* the tool active, and its successive values follow starting -> processing ->
\* (complete | error): never back from complete or error, never both complete
\* and error.
C11_ToolStatusOrder ==
    [][ /\ IsSome(toolState'.status) => toolState'.isActive
        /\ (IsSome(toolState'.status) /\ toolState'.status # toolState.status)
              => <<toolState.status, toolState'.status>> \in StatusMoves ]_vars

\* the error strings of the tool_error chunks of a chunk sequence
ToolErrors(log) ==
    { Get(log[k].error) : k \in { l \in 1..Len(log) : log[l].type = "tool_error" } }

\* C12: a tool_error chunk does not abort the turn: the chunks after it are
\* consumed, the finalized message is appended at stream end, and the tool
\* error is still part of what is displayed after the tool state was reset (in
\* the finalized message, or in the tool state).
C12_ToolErrorKeptOnMessage ==
    \A t \in Turns :
        (Finalized(t) /\ ToolErrors(turns[t].log) # {}) =>
            /\ turns[t].aiResponse.id = AiMsgId(t)
            /\ \A e \in ToolErrors(turns[t].log) :
                  \/ \E k \in 1..Len(turns[t].aiResponse.content) :
                        turns[t].aiResponse.content[k] = e
                  \/ toolState.error = Some(e)

\* C13: the finalized message has toolName if and only if it has toolResult.
C13_ToolNameIffToolResult ==
    \A t \in Turns :
        Finalized(t) =>
            (IsSome(turns[t].aiResponse.toolName) <=> IsSome(turns[t].aiResponse.toolResult))

\* C14: the tool state is inactive, with no status, result or error, when a
\* send or edit cycle starts to consume its stream, and is inactive again when
\* the cycle ends, on every path.
C14_ToolStateResetAroundCycle ==
    [][ \A t \in Turns :
          /\ (turns[t].pc = "request" /\ turns'[t].pc = "stream")
                => toolState' = InactiveTool
          /\ Finishes(t) => toolState' = InactiveTool ]_vars

TargetRemoved(t) ==
    LET id == IF turns[t].kind = "send" /\ turns[t].isNewConversation
              THEN TempId(t) ELSE turns[t].closureConversationId
    IN  /\ ~HasConv(conversations, id)
        /\ ~\E i \in 1..Len(conversations) : HoldsUserMessage(conversations[i], t)

\* C18: when the conversation a turn is for was removed from the store while
\* the turn was in flight, the end of the turn appends neither its assistant
\* message nor its error message anywhere: the store has the conversations it
\* had, each with the messages it had, and the removed one is not back.
C18_AppendDroppedWhenTargetRemoved ==
    [][ \A t \in Turns :
          ( /\ Finishes(t)
            /\ turns'[t].outcome # "signout"
            /\ TargetRemoved(t) )
          =>
          /\ Places(conversations', AiMsgId(t)) = {}
          /\ Len(conversations') = Len(conversations)
          /\ \A i \in 1..Len(conversations) :
                conversations'[i].messages = conversations[i].messages ]_vars

\* the step in which the backend delete d ends with the given outcome
DeleteEnds(d, outcome) ==
    /\ d \in deletes
    /\ d.outcome = "pending"
    /\ [d EXCEPT !.outcome = outcome] \in deletes'

\* C19: deleting a conversation removes it from the store before the backend
\* call resolves; when the backend call fails the conversation is in the store
\* again with the messages it had, and when it succeeds the conversation stays
\* absent.
C19_DeleteRollsBackOnFailure ==
    [][ /\ \A d \in deletes' \ deletes :
              d.outcome = "pending" => ~HasConv(conversations', d.id)
        /\ \A d \in deletes :
              /\ DeleteEnds(d, "failed") =>
                    \E i \in 1..Len(conversations') : conversations'[i] = d.had
              /\ DeleteEnds(d, "deleted") => ~HasConv(conversations', d.id) ]_vars

\* the pairedHistory of the user message with the given id in the conversation
\* at index i of a store, or no value when it is not there
PairedHistoryOf(convs, i, mid) ==
    LET j == IF i \in 1..Len(convs) THEN FindMsgIndex(convs[i].messages, mid) ELSE 0
    IN  IF j # 0 /\ convs[i].messages[j].role = "user"
        THEN Some(convs[i].messages[j].pairedHistory) ELSE None

\* where the conversation at index i of the store is after the step: where it
\* was when the list of ids is as before, otherwise where its id is (0: gone)
SameConversation(i) ==
    IF ConversationIds(conversations') = ConversationIds(conversations) THEN i
    ELSE FindConvIndex(conversations', conversations[i].id)

\* C20: for every user message, as long as it stays in its conversation,
\* pairedHistory only grows: a step leaves it as it is or, when it is an edit
\* of that message, adds exactly one entry at its end, the earlier entries
\* unchanged and in order.
C20_PairedHistoryOnlyGrows ==
    [][ \A i \in 1..Len(conversations) :
        \A mid \in { conversations[i].messages[k].id :
                        k \in 1..Len(conversations[i].messages) } :
          LET before == PairedHistoryOf(conversations, i, mid)
              after == PairedHistoryOf(conversations', SameConversation(i), mid)
          IN  (IsSome(before) /\ IsSome(after))
              =>
              \/ Get(after) = Get(before)
              \/ /\ EditStarts
                 /\ turns'[nTurns'].userMessageId = mid
                 /\ Len(Get(after)) = Len(Get(before)) + 1
                 /\ SubSeq(Get(after), 1, Len(Get(before))) = Get(before) ]_vars

\* the generator has ended after it took the reader
IterationEnded == parser.pc = "closed" /\ parser.outcome # "noBody"

\* C16: parseStreamResponse releases the reader exactly once on every way its
\* iteration ends (the body ends, a read raises, the consumer stops early), not
\* before, and once it is released nothing more is read or yielded.
C16_ReaderReleasedOnce ==
    /\ [](/\ parser.released = (IF IterationEnded THEN 1 ELSE 0)
          /\ parser.locked = (parser.pc \in {"reading", "suspended"}))
    /\ [][ parser.released > 0 =>
              /\ parser'.reads = parser.reads
              /\ parser'.yielded = parser.yielded
              /\ parser'.released = parser.released ]_vars

\* the consumer stopped at a chunk with part of the body still unread
C16_Witness ==
    /\ parser.outcome = "returned"
    /\ parser.body # << >>
    /\ parser.reads > 0
    /\ parser.released = 1

\* the JSON texts of the well-formed frames, in the order of the body
WellFormed(frames) ==
    LET good(payload) == payload \in JsonTexts
        kept == SelectSeq(frames, good)
    IN  [k \in 1..Len(kept) |-> << kept[k] >>]

IsPrefix(s, t) == Len(s) <= Len(t) /\ s = SubSeq(t, 1, Len(s))

\* C17: 'data: ' lines that do not parse, in any number and at any positions,
\* leave the yielded chunks those of the well-formed lines, in order; they
\* neither end the stream nor raise to the consumer: a stream runs to the end
\* of its body unless a read fails or the consumer stops.
C17_MalformedLinesSkipped ==
    /\ IsPrefix(parser.yielded, WellFormed(parser.frames))
    /\ parser.outcome = "done" =>
          /\ parser.yielded = WellFormed(parser.frames)
          /\ parser.body = << >>
    /\ parser.outcome \in {"none", "done", "readError", "returned", "noBody"}
    /\ parser.warned <= Len(parser.frames) - Len(WellFormed(parser.frames))

\* a malformed line between two well-formed ones, read to the end
C17_Witness ==
    /\ parser.outcome = "done"
    /\ parser.frames = <<"1", "x", "2">>
    /\ parser.yielded = << <<"1">>, <<"2">> >>
    /\ parser.warned = 1

\* the step in which a history fetch resolves and its messages are stored
HistoryStored(load) ==
    /\ load \in loads
    /\ load \notin loads'
    /\ session' = "in"
    /\ currentConversationId' = load.id
    /\ loadingConversationRef' = NullId

\* C21: a history load replaces the message array of a conversation only when
\* that array is empty at the moment of the replacement: no fetch result
\* overwrites messages that are present.
C21_HistoryLoadOnlyIntoEmpty ==
    [][ \A load \in loads :
          HistoryStored(load) =>
            \A i \in 1..Len(conversations) :
                ( /\ conversations[i].id = load.id
                  /\ conversations[i].messages # << >> )
                => conversations'[i].messages = conversations[i].messages ]_vars

\* C22: from the request of a send or edit until that cycle ends isLoading is
\* true, and at most one streaming reducer is active, under any interleaving of
\* select, new conversation and delete with the stream.
C22_OneStreamWhileLoading ==
    /\ InFlight # {} => isLoading
    /\ Cardinality(InFlight) <= 1

\* 2^k
Pow2(k) ==
    LET p[n \in 0..k] == IF n = 0 THEN 1 ELSE 2 * p[n - 1]
    IN  p[k]

\* C23: with pollInterval <= 30000 the delay before the next poll is
\* min(pollInterval * 2^k, 30000), k the number of consecutive 429 responses
\* since the last successful poll, hence pollInterval after a successful poll
\* that was not final, and never more than 30000; only a completed or failed
\* document is returned, and an error other than 429 is rethrown at once.
C23_BackoffDelay ==
    /\ (poller.pc = "sleep" /\ poller.pollInterval <= MaxBackoff) =>
          /\ poller.delay =
                Min(poller.pollInterval * Pow2(poller.rateLimited), MaxBackoff)
          /\ poller.rateLimited = 0 => poller.delay = poller.pollInterval
          /\ poller.delay <= MaxBackoff
    /\ poller.pc = "returned" => poller.result \in {"completed", "failed"}
    /\ poller.result # "none" => poller.pc = "returned" /\ poller.result = poller.status
    /\ poller.error = "other" => poller.pc = "thrown"

\* the third 429 in a row after a successful poll: 4000, 8000, 16000, then 30000
C23_Witness ==
    /\ poller.pc = "sleep"
    /\ poller.pollInterval = 4000
    /\ poller.rateLimited = 3
    /\ poller.status = "processing"
    /\ poller.delay = MaxBackoff

\* C24: the ids of the conversations in the store are unique in every
\* reachable state, the backend issuing a fresh conversation_id for each new
\* conversation.
C24_ConversationIdsUnique ==
    \A i, j \in 1..Len(conversations) :
        i # j => conversations[i].id # conversations[j].id

\* C25: currentConversationId is the 'new' sentinel, the initial null, or the
\* id of a conversation in the store, after any interleaving of send, stream
\* end with promotion, selection and deletion.
C25_CurrentConversationInStore ==
    session = "in" =>
        (IsDraft(currentConversationId) \/ HasConv(conversations, currentConversationId))

\* the conversation_id of the request of turn t (NullId: none is sent)
RequestConversationId(t) ==
    IF turns[t].kind = "send" THEN turns[t].activeConversationId
    ELSE turns[t].closureConversationId

\* C26: the request of every send and edit carries no conversation_id or one
\* issued by the server, never a provisional 'temp-' id, also in a
\* conversation whose first turn failed or whose stream had no meta frame.
C26_NoProvisionalIdSent ==
    \A t \in InFlight : ~StartsWithTemp(RequestConversationId(t))

\* C27: a history fetch that resolves for a selection that is not the user's
\* last one leaves currentConversationId as it is, the fetch of the last
\* selection makes that conversation current, and in ChatContent.tsx, which has
\* the loadingConversationRef guard, no two fetches for one conversation are in
\* flight.
C27_LastSelectionWins ==
    /\ [][ \A load \in loads :
              HistoryStored(load) =>
                  currentConversationId' =
                      (IF selected = load.id THEN load.id ELSE currentConversationId) ]_vars
    /\ [](impl = "ChatContent" =>
            \A l1, l2 \in loads : l1.id = l2.id => l1 = l2)

\* the step in which an edit of the bubble's message is applied to the store
BubbleEdited ==
    Len(bubble'.conv.messages[1].pairedHistory)
        = Len(bubble.conv.messages[1].pairedHistory) + 1

\* C28: after an edit of a user message has been applied to the store, the
\* bubble of that message (same id, same instance) shows the live version
\* without any navigation: its display index is the last index of the version
\* list, the new content is shown and no previous response is shown.
C28_EditShowsLiveVersion ==
    [][ BubbleEdited =>
          /\ bubble'.currentVersionIndex
                = totalVersions(bubble'.conv.messages[1]) - 1
          /\ displayedContent(bubble') = bubble'.conv.messages[1].content
          /\ ~ShowsHistoricalResponse(bubble') ]_vars

\* the part of the body that has been read
Consumed ==
    SubSeq(BodyOf(parser.frames), 1,
           Len(BodyOf(parser.frames)) - Len(parser.body))

\* the JSON texts of the 'data: ' lines that parse among the given lines
ChunksOf(lines) ==
    LET good(line) ==
            /\ StartsWithData(line)
            /\ JsonStr(line) \in { << payload >> : payload \in JsonTexts }
        kept == SelectSeq(lines, good)
    IN  [k \in 1..Len(kept) |-> JsonStr(kept[k])]

\* what one read of the whole text yields: the lines before the last delimiter
YieldedInOneRead(text) ==
    ChunksOf(SubSeq(Split(text), 1, Len(Split(text)) - 1))

\* C29: however the bytes of a body are split into reads, parseStreamResponse
\* yields the chunks that one read of the whole body yields: at every moment
\* the chunks yielded and those of the lines still to be looked at are the
\* chunks of the frames ended by a blank line in the bytes read so far, each
\* once and in order, and the bytes after the last blank line are kept.
C29_SplitIndependent ==
    parser.hasBody =>
        /\ parser.yielded \o ChunksOf(parser.lines) = YieldedInOneRead(Consumed)
        /\ parser.outcome = "none" =>
              parser.buffer = Split(Consumed)[Len(Split(Consumed))]
        /\ parser.outcome = "done" =>
              parser.yielded = YieldedInOneRead(BodyOf(parser.frames))

\* two frames read one byte at a time: every kind of split has happened
C29_Witness ==
    /\ parser.outcome = "done"
    /\ parser.frames = <<"1", "2">>
    /\ parser.reads = Len(BodyOf(parser.frames)) + 1
    /\ parser.yielded = << <<"1">>, <<"2">> >>

\* C30: on the documents page the number of uploads in flight,
\* activeUploadsRef, is between 0 and MAX_CONCURRENT_UPLOADS in every reachable
\* state and counts the uploads in flight, and each queued file is started at
\* most once.
C30_UploadsBounded ==
    /\ uploads.active \in 0..MAX_CONCURRENT_UPLOADS
    /\ uploads.active = Cardinality(uploads.workers)
    /\ \A i, j \in 1..Len(uploads.started) :
          i # j => uploads.started[i] # uploads.started[j]
    /\ \A i \in 1..Len(uploads.queue) :
          \A j \in 1..Len(uploads.started) : uploads.queue[i] # uploads.started[j]

\* the limit holds files back: three uploads in flight, one of them started
\* by the re-entrant call after an earlier one ended, and a file still queued
C30_Witness ==
    /\ uploads.active = MAX_CONCURRENT_UPLOADS
    /\ uploads.queue # << >>
    /\ Len(uploads.started) > MAX_CONCURRENT_UPLOADS

=============================================================================
